---- MODULE Spec2Model ----
(***************************************************************************)
(* Crypto Price Tracker (crypto_tracker.py): the alert store, the alert    *)
(* evaluation pass, the e-mail notifier and the alert log, driven by the   *)
(* page script main(), which runs top to bottom once per widget event.     *)
(*                                                                         *)
(* Left out: the price table and the history charts (they change no state  *)
(* the alert flow reads), a provider answer without the 'usd' field, and   *)
(* I/O errors on the log file. The auto-refresh timer is the input         *)
(* "elapsed": whether the chosen interval has passed when the script       *)
(* reaches the check.                                                      *)
(***************************************************************************)
EXTENDS Integers, Sequences, FiniteSets, TLC

\* ------------------------------------------------------------------ bounds
\* The code limits neither the number of script runs nor the number of rules.
\* Script runs per behaviour, and rules in the store, of Spec.
MaxTime == 7
MaxAlerts == 3
\* Script runs per behaviour, and rules in the stored session, of SpecEval.
EvalMaxTime == 1
EvalMaxAlerts == 2
\* Script runs per behaviour of SpecNotify.
NotifyMaxTime == 2
\* Script runs per behaviour of SpecLog.
LogMaxTime == 6

\* --------------------------------------------------------------- constants
\* f.readlines()[-10:] in the log viewer.
RecentN == 10
\* os.getenv('SMTP_PORT', 587)
DefaultPort == 587

\* ------------------------------------------------------------- the provider
\* The coins /coins/markets lists when the request succeeds.
crypto_list ==
    << [id |-> "bitcoin", name |-> "Bitcoin", symbol |-> "btc"],
       [id |-> "ethereum", name |-> "Ethereum", symbol |-> "eth"] >>

Upper(symbol) ==
    CASE symbol = "btc" -> "BTC"
      [] symbol = "eth" -> "ETH"
      [] OTHER -> symbol

\* f"{name} ({SYMBOL})": the label is the pair the format string joins.
Label(crypto) == << crypto.name, Upper(crypto.symbol) >>

Labels == { Label(crypto_list[i]) : i \in 1..Len(crypto_list) }

\* crypto_options: label -> id.
crypto_options ==
    [ l \in Labels |->
        (CHOOSE i \in 1..Len(crypto_list) : Label(crypto_list[i]) = l) ]

OptionId(label) == crypto_list[crypto_options[label]].id

\* label.split(' (')[0]
DisplayName(label) == label[1]

\* The empty mapping {} of Python, as a function with an empty domain.
EmptyMap == [ x \in {} |-> 0 ]

\* ------------------------------------------------------------------- state
VARIABLES
    email_config,       \* st.session_state.email_config
    alerts,             \* st.session_state.alerts
    selected_cryptos,   \* st.session_state.selected_cryptos
    alert_log_file,     \* price_alerts.log: whether it exists, and its lines
    clock,              \* datetime.now(), one tick per script run
    page,               \* where the last script run ended
    event,              \* the widget event the last script run served
    price_data,         \* the snapshot the last run fetched
    triggered_alerts,   \* what check_alerts returned in the last run
    notifier_calls,     \* the send_email_alert calls of the last run
    notices,            \* st.error / st.warning / st.success / st.info shown
    recent_logs         \* what the log viewer read and showed in the last run

vars == << email_config, alerts, selected_cryptos, alert_log_file, clock, page,
           event, price_data, triggered_alerts, notifier_calls, notices,
           recent_logs >>

\* ---------------------------------------------------------------- helpers
Range(seq) == { seq[i] : i \in 1..Len(seq) }

Reverse(seq) == [ i \in 1..Len(seq) |-> seq[Len(seq) + 1 - i] ]

\* Python truthiness of a text value: '' is falsy.
Truthy(text) == text # ""

\* ---------------------------------------------------------------- Notifier
SmtpSteps == << "connect", "starttls", "login", "sendmail", "quit" >>

\* What one SMTP session does: "ok", or the step that raises.
SmtpOutcomes == {"ok"} \cup Range(SmtpSteps)

\* The steps a session reaches: all of them, or those up to the one that raises.
StepsAttempted(outcome) ==
    IF outcome = "ok"
    THEN SmtpSteps
    ELSE SubSeq(SmtpSteps, 1, CHOOSE k \in 1..Len(SmtpSteps) : SmtpSteps[k] = outcome)

\* Mutant: the credential is not looked at.
ConfigCompleteNoPassword(config) ==
    Truthy(config.smtp_server) /\ Truthy(config.email_address)

\* all([config['smtp_server'], config['email_address'], config['email_password']])
ConfigComplete(config) ==
    /\ Truthy(config.smtp_server)
    /\ Truthy(config.email_address)
    /\ Truthy(config.email_password)

\* Mutant: server.quit() sits outside the try block, so its failure escapes.
send_email_alert_quit_escapes(config, outcome) ==
    IF ~ConfigComplete(config)
    THEN [ result |-> FALSE, notice |-> "warning", smtp |-> << >>,
           outcome |-> "refused", raised |-> FALSE ]
    ELSE [ result |-> outcome = "ok",
           notice |-> IF outcome \in {"ok", "quit"} THEN "none" ELSE "error",
           smtp   |-> StepsAttempted(outcome),
           outcome |-> outcome,
           raised |-> outcome = "quit" ]

\* send_email_alert: refused with a warning on an incomplete configuration;
\* otherwise one SMTP session, whose failure at any step is caught and shown.
\* smtp: the steps the session reached; outcome: what the relay did ("refused"
\* when no session was opened); raised: whether an exception leaves the method
\* (the except clause catches all).
send_email_alert(config, outcome) ==
    IF ~ConfigComplete(config)
    THEN [ result |-> FALSE, notice |-> "warning", smtp |-> << >>,
           outcome |-> "refused", raised |-> FALSE ]
    ELSE [ result |-> outcome = "ok",
           notice |-> IF outcome = "ok" THEN "none" ELSE "error",
           smtp   |-> StepsAttempted(outcome),
           outcome |-> outcome,
           raised |-> FALSE ]

\* --------------------------------------------------------------- Alert Log
\* json.dumps(log_entry): one line, the fields in the order the dict lists them.
JsonDumps(entry) ==
    << entry.timestamp, entry.crypto, entry.current_price,
       entry.threshold_price, entry.alert_type, entry.email_sent >>

\* json.loads(line)
JsonLoads(line) ==
    [ timestamp |-> line[1], crypto |-> line[2], current_price |-> line[3],
      threshold_price |-> line[4], alert_type |-> line[5], email_sent |-> line[6] ]

LogEntry(now, crypto_name, current_price, threshold_price, alert_type, email_sent) ==
    [ timestamp |-> now, crypto |-> crypto_name, current_price |-> current_price,
      threshold_price |-> threshold_price, alert_type |-> alert_type,
      email_sent |-> email_sent ]

\* Mutant: only delivered alerts are logged.
log_alert_if_sent(file, entry) ==
    IF entry.email_sent
    THEN [ exists |-> TRUE, lines |-> Append(file.lines, JsonDumps(entry)) ]
    ELSE file

\* Mutant: a rule already in the log is not logged again.
log_alert_once(file, entry) ==
    IF \E k \in 1..Len(file.lines) :
          /\ file.lines[k][2] = entry.crypto
          /\ file.lines[k][4] = entry.threshold_price
          /\ file.lines[k][5] = entry.alert_type
    THEN file
    ELSE [ exists |-> TRUE, lines |-> Append(file.lines, JsonDumps(entry)) ]

\* log_alert: open(..., 'a') creates the file; one line is appended.
log_alert(file, entry) ==
    [ exists |-> TRUE, lines |-> Append(file.lines, JsonDumps(entry)) ]

\* Mutant: the first n lines instead of the last n.
LastLinesHead(lines, n) ==
    SubSeq(lines, 1, IF Len(lines) < n THEN Len(lines) ELSE n)

\* f.readlines()[-n:]
LastLines(lines, n) ==
    SubSeq(lines, IF Len(lines) > n THEN Len(lines) - n + 1 ELSE 1, Len(lines))

\* The "View Alert Logs" handler: logs is what it reads (oldest first), shown the
\* lines it writes to the sidebar (reversed(logs)), info whether it says
\* "No alert logs yet".
view_alert_logs(file) ==
    IF file.exists
    THEN LET last == LastLines(file.lines, RecentN)
             logs == [ i \in 1..Len(last) |-> JsonLoads(last[i]) ]
         IN  [ viewed |-> TRUE, logs |-> logs, shown |-> Reverse(logs),
               info |-> logs = << >> ]
    ELSE [ viewed |-> TRUE, logs |-> << >>, shown |-> << >>, info |-> TRUE ]

NotViewed == [ viewed |-> FALSE, logs |-> << >>, shown |-> << >>, info |-> FALSE ]

\* --------------------------------------------------------- Alert Evaluator
\* Mutant: a missing coin is priced at 0 (price_data.get(id, {}).get('usd', 0)).
PriceLookupDefaultZero(snapshot, crypto_id) ==
    IF crypto_id \in DOMAIN snapshot
    THEN [ present |-> TRUE, usd |-> snapshot[crypto_id] ]
    ELSE [ present |-> TRUE, usd |-> 0 ]

\* if crypto_id in price_data: current_price = price_data[crypto_id]['usd']
PriceLookup(snapshot, crypto_id) ==
    IF crypto_id \in DOMAIN snapshot
    THEN [ present |-> TRUE, usd |-> snapshot[crypto_id] ]
    ELSE [ present |-> FALSE, usd |-> 0 ]

\* Mutant: strict comparisons.
ShouldTriggerStrict(alert_type, current_price, threshold) ==
    \/ alert_type = "above" /\ current_price > threshold
    \/ alert_type = "below" /\ current_price < threshold

\* The condition of check_alerts.
ShouldTrigger(alert_type, current_price, threshold) ==
    \/ alert_type = "above" /\ current_price >= threshold
    \/ alert_type = "below" /\ current_price <= threshold

\* The accumulator of the loop of check_alerts: the triggered list, the
\* notifier calls made, the log file, and whether an exception ended the loop.
NoAlerts(file) ==
    [ triggered |-> << >>, calls |-> << >>, file |-> file, raised |-> FALSE ]

\* One iteration of the loop, for one rule.
check_alert(acc, alert, snapshot, config, outcomes, now) ==
    LET look == PriceLookup(snapshot, alert.crypto_id)
    IN  IF acc.raised \/ ~look.present
           \/ ~ShouldTrigger(alert.type, look.usd, alert.threshold)
        THEN acc
        ELSE LET sent == send_email_alert(config, outcomes[Len(acc.calls) + 1])
                 call == [ crypto_name |-> alert.crypto_name,
                           current_price |-> look.usd,
                           threshold |-> alert.threshold,
                           type |-> alert.type,
                           smtp |-> sent.smtp,
                           outcome |-> sent.outcome,
                           notice |-> sent.notice,
                           result |-> sent.result ]
             IN  IF sent.raised
                 THEN [ acc EXCEPT !.calls = Append(@, call), !.raised = TRUE ]
                 ELSE [ triggered |->
                            Append(acc.triggered,
                                   [ crypto_name |-> alert.crypto_name,
                                     current_price |-> look.usd,
                                     threshold |-> alert.threshold,
                                     type |-> alert.type,
                                     email_sent |-> sent.result ]),
                        calls |-> Append(acc.calls, call),
                        file |-> log_alert(acc.file,
                                    LogEntry(now, alert.crypto_name, look.usd,
                                             alert.threshold, alert.type,
                                             sent.result)),
                        raised |-> FALSE ]

RECURSIVE check_alerts_from(_, _, _, _, _, _, _)
check_alerts_from(i, acc, snapshot, rules, config, outcomes, now) ==
    IF i > Len(rules)
    THEN acc
    ELSE check_alerts_from(i + 1,
             check_alert(acc, rules[i], snapshot, config, outcomes, now),
             snapshot, rules, config, outcomes, now)

\* check_alerts(price_data, alerts): the rules in list order.
check_alerts(snapshot, rules, config, outcomes, now, file) ==
    check_alerts_from(1, NoAlerts(file), snapshot, rules, config, outcomes, now)

\* ------------------------------------------------------------- Alert Store
\* Mutant: the duplicate check is missing.
add_alert_always(rules, new_alert) ==
    [ rules |-> Append(rules, new_alert), notice |-> "added" ]

\* Mutant: a new rule goes to the front of the list.
add_alert_front(rules, new_alert) ==
    IF new_alert \notin Range(rules)
    THEN [ rules |-> << new_alert >> \o rules, notice |-> "added" ]
    ELSE [ rules |-> rules, notice |-> "duplicate" ]

\* if new_alert not in alerts: append, success; else: warning.
add_alert(rules, new_alert) ==
    IF new_alert \notin Range(rules)
    THEN [ rules |-> Append(rules, new_alert), notice |-> "added" ]
    ELSE [ rules |-> rules, notice |-> "duplicate" ]

\* Mutant: the last rule is removed, whatever the index.
pop_last(rules, i) == SubSeq(rules, 1, Len(rules) - 1)

\* alerts.pop(i), i counted from 0.
pop(rules, i) == SubSeq(rules, 1, i) \o SubSeq(rules, i + 2, Len(rules))

\* ------------------------------------------------------------ widget events
\* The widget event a script run serves: a button press (at most one a run)
\* or none (the first load, a rerun, a changed input).
NoEvent ==
    [ kind |-> "none", label |-> << >>, type |-> "", threshold |-> 0, index |-> 0 ]

AddEvent(label, type, threshold) ==
    [ kind |-> "add", label |-> label, type |-> type, threshold |-> threshold,
      index |-> 0 ]

RemoveEvent(i) ==
    [ kind |-> "remove", label |-> << >>, type |-> "", threshold |-> 0, index |-> i ]

ButtonEvent(kind) ==
    [ kind |-> kind, label |-> << >>, type |-> "", threshold |-> 0, index |-> 0 ]

\* [crypto_options[name] for name in selected_crypto_names]
SelectedIds(names) == [ i \in 1..Len(names) |-> OptionId(names[i]) ]

\* new_alert of the "Add Alert" handler.
NewAlert(ev) ==
    [ crypto_id |-> OptionId(ev.label), crypto_name |-> DisplayName(ev.label),
      type |-> ev.type, threshold |-> ev.threshold ]

\* -------------------------------------------------------- one run of main()
\* config, names: the sidebar inputs and the multiselect as the run reads them;
\* list_ok: whether get_crypto_list got its answer; resp: what get_price_data
\* got; outcomes: what each SMTP session of the run does; ev: the button
\* pressed; elapsed: whether time_diff >= refresh_interval.
Script(config, list_ok, names, resp, outcomes, ev, elapsed) ==
    LET now == clock + 1
        \* get_crypto_list returns [] on failure, and col1's block is skipped
        ids == IF list_ok THEN SelectedIds(names) ELSE << >>
        fetched == list_ok /\ ids # << >>
        snapshot == IF fetched /\ resp.ok THEN resp.data ELSE EmptyMap
    IN
    \* if price_data: ... tracker.check_alerts(price_data, alerts)
    \E res \in { IF DOMAIN snapshot # {}
                 THEN check_alerts(snapshot, alerts, config, outcomes, now,
                                   alert_log_file)
                 ELSE NoAlerts(alert_log_file) } :
    \* selected_crypto_names is unbound at line 323 when the list is empty
    \E crashed \in { ~list_ok \/ res.raised } :
    \E added \in { IF ~crashed /\ names # << >> /\ ev.kind = "add"
                      /\ ev.threshold > 0
                   THEN add_alert(alerts, NewAlert(ev))
                   ELSE [ rules |-> alerts, notice |-> "none" ] } :
    LET removing == ~crashed /\ ev.kind = "remove"
        \* st.rerun() ends the run: after a removal, on the timer, on "Refresh Now"
        rerun == ~crashed /\ (removing \/ elapsed \/ ev.kind = "refresh")
    IN
    \E view \in { IF ~crashed /\ ~rerun /\ ev.kind = "view"
                  THEN view_alert_logs(res.file)
                  ELSE NotViewed } :
        /\ clock' = now
        /\ email_config' = config
        /\ selected_cryptos' = IF list_ok THEN names ELSE selected_cryptos
        /\ price_data' = snapshot
        /\ triggered_alerts' = res.triggered
        /\ notifier_calls' = res.calls
        /\ alert_log_file' = res.file
        /\ alerts' = IF removing THEN pop(added.rules, ev.index) ELSE added.rules
        /\ event' = ev
        /\ recent_logs' = view
        /\ page' = IF crashed THEN "error" ELSE IF rerun THEN "rerun" ELSE "rendered"
        /\ notices' =
              (IF ~list_ok THEN { "list_error" } ELSE {})
              \cup (IF fetched /\ ~resp.ok THEN { "price_error" } ELSE {})
              \cup { "config_warning" : k \in { j \in 1..Len(res.calls) :
                                                 res.calls[j].notice = "warning" } }
              \cup { "email_error" : k \in { j \in 1..Len(res.calls) :
                                              res.calls[j].notice = "error" } }
              \cup (IF ~crashed /\ res.triggered # << >>
                    THEN { "alerts_triggered" } ELSE {})
              \cup ({ added.notice } \ { "none" })
              \cup (IF view.info THEN { "no_logs" } ELSE {})
              \cup (IF crashed THEN { "exception" } ELSE {})

\* ------------------------------------------------------------- environment
\* What the environment of a specification offers: the values the sidebar
\* inputs take, whether the provider answers, the prices it quotes, what the
\* mail relay does, the thresholds the user types, whether the refresh
\* interval has elapsed, and the bounds on runs and rules. partial: whether
\* the provider may leave a coin it was asked for out of its answer.
Environment(servers, ports, addresses, passwords, list_oks, price_oks, partial, prices, outcomes, thresholds, elapseds, max_time, max_alerts) ==
    [ servers |-> servers, ports |-> ports, addresses |-> addresses,
      passwords |-> passwords, list_oks |-> list_oks, price_oks |-> price_oks,
      partial |-> partial,
      prices |-> prices, outcomes |-> outcomes, thresholds |-> thresholds,
      elapseds |-> elapseds, max_time |-> max_time, max_alerts |-> max_alerts ]

Configs(E) ==
    [ smtp_server : E.servers, smtp_port : E.ports,
      email_address : E.addresses, email_password : E.passwords ]

\* A run after the user edited at most one sidebar input.
ConfigEdits(E) ==
    { c \in Configs(E) :
        Cardinality({ f \in { "smtp_server", "smtp_port", "email_address",
                              "email_password" } : c[f] # email_config[f] }) <= 1 }

\* The multiselect after the user added or removed at most one coin.
SelectionEdits ==
    {selected_cryptos}
    \cup { Append(selected_cryptos, l) : l \in Labels \ Range(selected_cryptos) }
    \cup { SubSeq(selected_cryptos, 1, i - 1)
             \o SubSeq(selected_cryptos, i + 1, Len(selected_cryptos)) :
           i \in 1..Len(selected_cryptos) }

\* What get_price_data returns for the ids asked: {} on a failed request,
\* otherwise the prices of the ids the provider answers for.
Responses(E, list_ok, names) ==
    IF list_ok /\ names # << >>
    THEN { [ ok |-> FALSE, data |-> EmptyMap ] : ok \in E.price_oks \ {TRUE} }
         \cup { [ ok |-> TRUE, data |-> m ] :
                m \in IF TRUE \in E.price_oks
                      THEN UNION { [ S -> E.prices ] :
                                   S \in IF E.partial
                                         THEN SUBSET Range(SelectedIds(names))
                                         ELSE { Range(SelectedIds(names)) } }
                      ELSE {} }
    ELSE { [ ok |-> TRUE, data |-> EmptyMap ] }

\* How many SMTP sessions the evaluation pass asks for.
SendsNeeded(snapshot, rules) ==
    Cardinality({ i \in 1..Len(rules) :
        LET look == PriceLookup(snapshot, rules[i].crypto_id)
        IN  look.present /\ ShouldTrigger(rules[i].type, look.usd, rules[i].threshold) })

\* One script run under environment E, the widgets and the button given.
Run(E, config, names, ev) ==
    /\ clock < E.max_time
    /\ \E list_ok \in E.list_oks, elapsed \in E.elapseds :
         \E resp \in Responses(E, list_ok, names) :
           \E outcomes \in [ 1..SendsNeeded(resp.data, alerts) -> E.outcomes ] :
             Script(config, list_ok, names, resp, outcomes, ev, elapsed)

\* The first load of the page: every widget shows its default.
RunFirstIn(E) ==
    /\ page = "start"
    /\ Run(E, email_config, selected_cryptos, NoEvent)

\* The run st.rerun() asked for: no widget has changed.
RunRerunIn(E) ==
    /\ page = "rerun"
    /\ Run(E, email_config, selected_cryptos, NoEvent)

\* A run because an input changed: a sidebar field, the multiselect (when the
\* last run drew it), or a widget the state does not depend on.
RunWidgetIn(E) ==
    /\ page \in { "rendered", "error" }
    /\ \E config \in ConfigEdits(E) :
         \E names \in IF page = "rendered" /\ config = email_config
                      THEN SelectionEdits
                      ELSE {selected_cryptos} :
           Run(E, config, names, NoEvent)

\* "Add Alert" pressed: the form is drawn when coins are selected.
RunAddAlertIn(E) ==
    /\ page = "rendered"
    /\ selected_cryptos # << >>
    /\ \E label \in Range(selected_cryptos), type \in { "above", "below" },
          threshold \in E.thresholds :
         /\ \/ Len(alerts) < E.max_alerts
            \/ NewAlert(AddEvent(label, type, threshold)) \in Range(alerts)
         /\ Run(E, email_config, selected_cryptos, AddEvent(label, type, threshold))

\* "Remove" pressed beside rule i of the list the last run drew.
RunRemoveIn(E) ==
    /\ page = "rendered"
    /\ \E i \in 0..(Len(alerts) - 1) :
         Run(E, email_config, selected_cryptos, RemoveEvent(i))

\* "Refresh Now" pressed.
RunRefreshNowIn(E) ==
    /\ page = "rendered"
    /\ Run(E, email_config, selected_cryptos, ButtonEvent("refresh"))

\* "View Alert Logs" pressed.
RunViewLogsIn(E) ==
    /\ page = "rendered"
    /\ Run(E, email_config, selected_cryptos, ButtonEvent("view"))

\* The session before the first run: the configuration comes from the
\* process environment, the store and the selection are empty, no log file.
InitIn(E) ==
    /\ email_config \in Configs(E)
    /\ alerts = << >>
    /\ selected_cryptos = << >>
    /\ alert_log_file = [ exists |-> FALSE, lines |-> << >> ]
    /\ clock = 0
    /\ page = "start"
    /\ event = NoEvent
    /\ price_data = EmptyMap
    /\ triggered_alerts = << >>
    /\ notifier_calls = << >>
    /\ notices = {}
    /\ recent_logs = NotViewed

\* A session some runs later: coins are selected and rules are stored (the
\* user added them while the price request failed, so nothing has fired and
\* there is no log file), and the last run drew the whole page.
Selections ==
    { << >> } \cup { << l >> : l \in Labels }
    \cup { pair \in Labels \X Labels : pair[1] # pair[2] }

Rules(E) ==
    { NewAlert(AddEvent(l, t, th)) :
        l \in Labels, t \in { "above", "below" }, th \in E.thresholds \ { 0 } }

RuleLists(E) ==
    { rules \in UNION { [ 1..n -> Rules(E) ] : n \in 0..E.max_alerts } :
        \A i, j \in 1..Len(rules) : rules[i] = rules[j] => i = j }

SessionIn(E) ==
    /\ email_config \in Configs(E)
    /\ alerts \in RuleLists(E)
    /\ selected_cryptos \in Selections
    /\ alert_log_file = [ exists |-> FALSE, lines |-> << >> ]
    /\ clock = 0
    /\ page = "rendered"
    /\ event = NoEvent
    /\ price_data = EmptyMap
    /\ triggered_alerts = << >>
    /\ notifier_calls = << >>
    /\ notices = {}
    /\ recent_logs = NotViewed

\* The session with both coins selected and one rule for each.
TwoRuleSessionIn(E) ==
    /\ SessionIn(E)
    /\ alerts = << [ crypto_id |-> "bitcoin", crypto_name |-> "Bitcoin",
                     type |-> "above", threshold |-> 2 ],
                   [ crypto_id |-> "ethereum", crypto_name |-> "Ethereum",
                     type |-> "below", threshold |-> 2 ] >>
    /\ selected_cryptos = << Label(crypto_list[1]), Label(crypto_list[2]) >>

\* ------------------------------------ the whole program, from its first run
\* The price request fails throughout, so no rule fires and the runs edit the
\* store only; that affords three rules and seven runs. The refresh interval
\* may elapse in any run.
MainEnv ==
    Environment({ "smtp.example.com" }, { DefaultPort },
                { "me@example.com" }, { "secret" },
                BOOLEAN, { FALSE }, FALSE, {}, { "ok" }, { 0, 2, 3 },
                BOOLEAN, MaxTime, MaxAlerts)

Init == InitIn(MainEnv)

RunFirst == RunFirstIn(MainEnv)

RunRerun == RunRerunIn(MainEnv)

RunWidget == RunWidgetIn(MainEnv)

RunAddAlert == RunAddAlertIn(MainEnv)

RunRemove == RunRemoveIn(MainEnv)

RunRefreshNow == RunRefreshNowIn(MainEnv)

RunViewLogs == RunViewLogsIn(MainEnv)

Next ==
    \/ RunFirst
    \/ RunRerun
    \/ RunWidget
    \/ RunAddAlert
    \/ RunRemove
    \/ RunRefreshNow
    \/ RunViewLogs

Spec == Init /\ [][Next]_vars

\* ------------------------------------------- the program evaluating rules
\* From a session with rules stored: the coin list and the price request may
\* fail, the provider quotes three prices around the threshold and may leave
\* coins out, the relay delivers or rejects the login. The runs change inputs,
\* refresh and remove rules; the refresh interval does not elapse within the
\* run ("Add Alert", the log viewer, the timer and the reruns are in Spec and
\* SpecLog).
EvalEnv ==
    Environment({ "smtp.example.com" }, { DefaultPort },
                { "me@example.com" }, { "secret" },
                BOOLEAN, BOOLEAN, TRUE, { 1, 2, 3 }, { "ok", "login" }, { 2 },
                { FALSE }, EvalMaxTime, EvalMaxAlerts)

EvalInit == SessionIn(EvalEnv)

EvalRunWidget == RunWidgetIn(EvalEnv)

EvalRunRemove == RunRemoveIn(EvalEnv)

EvalRunRefreshNow == RunRefreshNowIn(EvalEnv)

EvalNext ==
    \/ EvalRunWidget
    \/ EvalRunRemove
    \/ EvalRunRefreshNow

SpecEval == EvalInit /\ [][EvalNext]_vars

\* -------------------------------------------- the program and its mail relay
\* From the session with one rule for each coin: every sidebar field may be
\* blank (the port 0) and the relay may fail at any step; the provider quotes
\* one price, which satisfies both rules. The refresh interval may elapse.
NotifyEnv ==
    Environment({ "", "smtp.example.com" }, { 0, DefaultPort },
                { "", "me@example.com" }, { "", "secret" },
                { TRUE }, { TRUE }, FALSE, { 2 }, SmtpOutcomes, { 2 },
                BOOLEAN, NotifyMaxTime, Len(crypto_list))

NotifyInit == TwoRuleSessionIn(NotifyEnv)

NotifyRunRerun == RunRerunIn(NotifyEnv)

NotifyRunWidget == RunWidgetIn(NotifyEnv)

NotifyRunRemove == RunRemoveIn(NotifyEnv)

NotifyRunRefreshNow == RunRefreshNowIn(NotifyEnv)

NotifyNext ==
    \/ NotifyRunRerun
    \/ NotifyRunWidget
    \/ NotifyRunRemove
    \/ NotifyRunRefreshNow

SpecNotify == NotifyInit /\ [][NotifyNext]_vars

\* ------------------------------------------------ the program filling its log
\* From the session with both coins selected and one rule for each, which the
\* one quoted price satisfies; the runs refresh, change inputs, remove rules
\* and view the log, long enough for the file to outgrow what the viewer
\* reads. The price request may fail and the refresh interval may elapse.
LogEnv ==
    Environment({ "smtp.example.com" }, { DefaultPort },
                { "me@example.com" }, { "secret" },
                { TRUE }, BOOLEAN, FALSE, { 2 }, { "ok" }, { 2 },
                BOOLEAN, LogMaxTime, Len(crypto_list))

LogInit == TwoRuleSessionIn(LogEnv)

LogRunRerun == RunRerunIn(LogEnv)

LogRunWidget == RunWidgetIn(LogEnv)

LogRunRefreshNow == RunRefreshNowIn(LogEnv)

LogRunViewLogs == RunViewLogsIn(LogEnv)

LogRunRemove == RunRemoveIn(LogEnv)

LogNext ==
    \/ LogRunRerun
    \/ LogRunWidget
    \/ LogRunRefreshNow
    \/ LogRunViewLogs
    \/ LogRunRemove

SpecLog == LogInit /\ [][LogNext]_vars

\* ================================================================== claims
\* The terms the claims are stated in.

\* The rule's condition on a snapshot: its coin is quoted, and the price is on
\* the rule's side of the threshold or on it.
ConditionHolds(rule, snapshot) ==
    /\ rule.crypto_id \in DOMAIN snapshot
    /\ \/ rule.type = "above" /\ snapshot[rule.crypto_id] >= rule.threshold
       \/ rule.type = "below" /\ snapshot[rule.crypto_id] <= rule.threshold

\* A triggered alert or a notifier call is the rule's.
IsFor(x, rule) ==
    /\ x.crypto_name = rule.crypto_name
    /\ x.type = rule.type
    /\ x.threshold = rule.threshold

\* A log event is the rule's.
EventIsFor(e, rule) ==
    /\ e.crypto = rule.crypto_name
    /\ e.alert_type = rule.type
    /\ e.threshold_price = rule.threshold

\* The events a step appends to the log file.
Appended ==
    [ k \in 1..(Len(alert_log_file'.lines) - Len(alert_log_file.lines)) |->
        JsonLoads(alert_log_file'.lines[Len(alert_log_file.lines) + k]) ]

\* The file only grows, at its end.
AppendOnly ==
    /\ Len(alert_log_file'.lines) >= Len(alert_log_file.lines)
    /\ SubSeq(alert_log_file'.lines, 1, Len(alert_log_file.lines))
         = alert_log_file.lines

\* C1: a rule whose coin is in the snapshot is reported triggered exactly when
\* (above and price >= threshold) or (below and price <= threshold), with the
\* snapshot's price; a price equal to the threshold triggers in both directions.
C1_TriggeredIffCondition ==
    [][ \A i \in 1..Len(alerts) :
          alerts[i].crypto_id \in DOMAIN price_data' =>
            LET price == price_data'[alerts[i].crypto_id]
                hits == { k \in 1..Len(triggered_alerts') :
                            IsFor(triggered_alerts'[k], alerts[i]) }
            IN  /\ (hits # {}) <=>
                     \/ alerts[i].type = "above" /\ price >= alerts[i].threshold
                     \/ alerts[i].type = "below" /\ price <= alerts[i].threshold
                /\ \A k \in hits : triggered_alerts'[k].current_price = price
                /\ price = alerts[i].threshold => hits # {} ]_vars

\* A pass in which an "above" and a "below" rule both fire at price = threshold.
C1_Witness ==
    /\ \E k \in 1..Len(triggered_alerts) :
         /\ triggered_alerts[k].type = "above"
         /\ triggered_alerts[k].current_price = triggered_alerts[k].threshold
    /\ \E k \in 1..Len(triggered_alerts) :
         /\ triggered_alerts[k].type = "below"
         /\ triggered_alerts[k].current_price = triggered_alerts[k].threshold

\* C2: in every cycle one event is appended to the log for a rule if and only
\* if the rule's condition held in that cycle, whatever the notifier returned;
\* email_sent records the notifier's result.
C2_LoggedIffConditionHeld ==
    [][ /\ AppendOnly
        /\ \A i \in 1..Len(alerts) :
             Cardinality({ k \in 1..Len(Appended) : EventIsFor(Appended[k], alerts[i]) })
               = IF ConditionHolds(alerts[i], price_data') THEN 1 ELSE 0
        /\ \A k \in 1..Len(Appended) :
             \E i \in 1..Len(alerts) : EventIsFor(Appended[k], alerts[i])
        /\ Len(Appended) = Len(notifier_calls')
        /\ \A k \in 1..Len(Appended) :
             /\ Appended[k].email_sent = notifier_calls'[k].result
             /\ Appended[k].crypto = notifier_calls'[k].crypto_name ]_vars

\* One cycle logged a delivered and an undelivered alert.
C2_Witness ==
    /\ Len(notifier_calls) = 2
    /\ Len(alert_log_file.lines) >= 2
    /\ \E k \in 1..2 : notifier_calls[k].result
    /\ \E k \in 1..2 : ~notifier_calls[k].result
    /\ \A k \in 1..2 :
         LET e == JsonLoads(alert_log_file.lines[Len(alert_log_file.lines) - 2 + k])
         IN  e.timestamp = clock /\ e.email_sent = notifier_calls[k].result

\* C3: a rule whose coin is absent from the snapshot (an empty snapshot after a
\* failed fetch included) yields no triggered alert, no notifier call and no
\* log event in that cycle, and the evaluation raises nothing.
C3_AbsentCoinIsSkipped ==
    [][ \A i \in 1..Len(alerts) :
          alerts[i].crypto_id \notin DOMAIN price_data' =>
            /\ \A k \in 1..Len(triggered_alerts') :
                 ~IsFor(triggered_alerts'[k], alerts[i])
            /\ \A k \in 1..Len(notifier_calls') :
                 ~IsFor(notifier_calls'[k], alerts[i])
            /\ AppendOnly
            /\ \A k \in 1..Len(Appended) : ~EventIsFor(Appended[k], alerts[i])
            /\ "list_error" \notin notices' => "exception" \notin notices' ]_vars

\* A stored rule met a non-empty snapshot without its coin, and nothing fired.
C3_Witness ==
    /\ event.kind = "none"
    /\ DOMAIN price_data # {}
    /\ \E i \in 1..Len(alerts) : alerts[i].crypto_id \notin DOMAIN price_data
    /\ triggered_alerts = << >>
    /\ notifier_calls = << >>
    /\ page = "rendered"

\* C4: adding a rule equal in all four fields to a stored rule leaves the store
\* as it was and signals "duplicate"; any other rule is appended at the end.
C4_AddDuplicateOrAppend ==
    [][ (event'.kind = "add" /\ event'.threshold > 0 /\ "exception" \notin notices') =>
          LET rule == [ crypto_id |-> OptionId(event'.label),
                        crypto_name |-> DisplayName(event'.label),
                        type |-> event'.type,
                        threshold |-> event'.threshold ]
          IN  IF \E i \in 1..Len(alerts) :
                    /\ alerts[i].crypto_id = rule.crypto_id
                    /\ alerts[i].crypto_name = rule.crypto_name
                    /\ alerts[i].type = rule.type
                    /\ alerts[i].threshold = rule.threshold
              THEN alerts' = alerts /\ "duplicate" \in notices'
                   /\ "added" \notin notices'
              ELSE /\ Len(alerts') = Len(alerts) + 1
                   /\ SubSeq(alerts', 1, Len(alerts)) = alerts
                   /\ alerts'[Len(alerts')] = rule
                   /\ "duplicate" \notin notices' ]_vars

\* A duplicate was refused on a store that holds two rules.
C4_Witness ==
    /\ event.kind = "add"
    /\ "duplicate" \in notices
    /\ Len(alerts) = 2
    /\ NewAlert(event) = alerts[1]

\* C6: nothing is remembered between cycles: a rule that fired, is still in
\* the store and is still satisfied by an unchanged snapshot fires again in the
\* next cycle, with one notifier call and one log event.
C6_FiresAgainEveryCycle ==
    [][ \A i \in 1..Len(alerts) :
          ( /\ \E k \in 1..Len(triggered_alerts) : IsFor(triggered_alerts[k], alerts[i])
            /\ price_data' = price_data
            /\ ConditionHolds(alerts[i], price_data) ) =>
            /\ Cardinality({ k \in 1..Len(triggered_alerts') :
                               IsFor(triggered_alerts'[k], alerts[i]) }) = 1
            /\ Cardinality({ k \in 1..Len(notifier_calls') :
                               IsFor(notifier_calls'[k], alerts[i]) }) = 1
            /\ Cardinality({ k \in 1..Len(Appended) :
                               EventIsFor(Appended[k], alerts[i]) }) = 1 ]_vars

\* The log holds the same rule's events from two consecutive cycles at one price.
C6_Witness ==
    /\ Len(triggered_alerts) = 1
    /\ Len(alert_log_file.lines) >= 2
    /\ LET n == Len(alert_log_file.lines)
           a == JsonLoads(alert_log_file.lines[n - 1])
           b == JsonLoads(alert_log_file.lines[n])
       IN  /\ a.timestamp = clock - 1
           /\ b.timestamp = clock
           /\ a.crypto = b.crypto
           /\ a.alert_type = b.alert_type
           /\ a.threshold_price = b.threshold_price
           /\ a.current_price = b.current_price

\* C10: from the empty store, no sequence of additions and removals leaves two
\* rules equal in all four fields in the store.
C10_NoDuplicateRules ==
    \A i, j \in 1..Len(alerts) :
        ( /\ alerts[i].crypto_id = alerts[j].crypto_id
          /\ alerts[i].crypto_name = alerts[j].crypto_name
          /\ alerts[i].type = alerts[j].type
          /\ alerts[i].threshold = alerts[j].threshold ) => i = j

\* Two rules were added and one of them removed again.
C10_Witness ==
    /\ event.kind = "remove"
    /\ page = "rerun"
    /\ Len(alerts) = 1

\* C5 as claimed: a send with any one of the four configuration fields (server
\* host, port, account, credential) empty is refused: false is returned, a
\* warning is shown, nothing is raised and no connection is opened.
C5_AnyOfFourFieldsEmptyRefused ==
    ( \/ email_config.smtp_server = ""
      \/ email_config.smtp_port = 0
      \/ email_config.email_address = ""
      \/ email_config.email_password = "" ) =>
        \A k \in 1..Len(notifier_calls) :
            /\ ~notifier_calls[k].result
            /\ notifier_calls[k].smtp = << >>
            /\ notifier_calls[k].notice = "warning"

\* C5 as amended: a send with the server host, the account or the credential
\* empty is refused: false is returned, a warning is shown, nothing is raised
\* and no connection is opened. The port is not looked at.
C5_HostAccountOrCredentialEmptyRefused ==
    ( \/ email_config.smtp_server = ""
      \/ email_config.email_address = ""
      \/ email_config.email_password = "" ) =>
        /\ \A k \in 1..Len(notifier_calls) :
              /\ ~notifier_calls[k].result
              /\ notifier_calls[k].smtp = << >>
              /\ notifier_calls[k].notice = "warning"
        /\ notifier_calls # << >> => "config_warning" \in notices
        /\ "exception" \notin notices
        /\ Len(triggered_alerts) = Len(notifier_calls)
        /\ \A k \in 1..Len(triggered_alerts) : ~triggered_alerts[k].email_sent

\* A send was refused with the credential alone missing.
C5_Witness ==
    /\ email_config.smtp_server # ""
    /\ email_config.smtp_port # 0
    /\ email_config.email_address # ""
    /\ email_config.email_password = ""
    /\ notifier_calls # << >>
    /\ ~notifier_calls[1].result
    /\ notifier_calls[1].smtp = << >>

\* C7: with a populated configuration a failure at any step of the session
\* (connect, STARTTLS, login, send, quit) is caught by the notifier, shown and
\* returned as false; the evaluation pass still logs the event and evaluates
\* the rules that follow.
C7_SendFailureIsContained ==
    [][ \A k \in 1..Len(notifier_calls') :
          notifier_calls'[k].outcome \in Range(SmtpSteps) =>
            /\ ~notifier_calls'[k].result
            /\ notifier_calls'[k].notice = "error"
            /\ "email_error" \in notices'
            /\ "exception" \notin notices'
            /\ page' # "error"
            /\ k <= Len(triggered_alerts')
            /\ ~triggered_alerts'[k].email_sent
            /\ triggered_alerts'[k].crypto_name = notifier_calls'[k].crypto_name
            /\ AppendOnly
            /\ k <= Len(Appended)
            /\ ~Appended[k].email_sent
            /\ Appended[k].crypto = notifier_calls'[k].crypto_name
            /\ Len(notifier_calls')
                 = Cardinality({ i \in 1..Len(alerts) :
                                   ConditionHolds(alerts[i], price_data') })
            /\ Len(Appended) = Len(notifier_calls') ]_vars

\* The first of two sends failed at STARTTLS; the second rule was still
\* evaluated and delivered, and both events are in the log.
C7_Witness ==
    /\ Len(notifier_calls) = 2
    /\ notifier_calls[1].outcome = "starttls"
    /\ notifier_calls[2].outcome = "ok"
    /\ Len(triggered_alerts) = 2
    /\ ~triggered_alerts[1].email_sent
    /\ triggered_alerts[2].email_sent
    /\ Len(alert_log_file.lines) >= 2
    /\ page = "rendered"

\* C8: the log viewer reads the last RecentN logged events, oldest first; all
\* of them, oldest first, when the log holds fewer; none when there is no file.
C8_ReadRecentLastNOldestFirst ==
    recent_logs.viewed =>
        LET lines == alert_log_file.lines
            logs == recent_logs.logs
            skipped == Len(lines) - Len(logs)
        IN  /\ ~alert_log_file.exists => logs = << >>
            /\ Len(logs) = IF Len(lines) < RecentN THEN Len(lines) ELSE RecentN
            /\ \A k \in 1..Len(logs) :
                 /\ logs[k].timestamp = lines[skipped + k][1]
                 /\ logs[k].crypto = lines[skipped + k][2]
                 /\ logs[k].current_price = lines[skipped + k][3]
                 /\ logs[k].threshold_price = lines[skipped + k][4]
                 /\ logs[k].alert_type = lines[skipped + k][5]
                 /\ logs[k].email_sent = lines[skipped + k][6]
            /\ \A k \in 1..(Len(logs) - 1) :
                 logs[k].timestamp <= logs[k + 1].timestamp

\* The viewer read a log of more than RecentN lines written over several cycles.
C8_Witness ==
    /\ recent_logs.viewed
    /\ Len(alert_log_file.lines) > RecentN
    /\ Len(recent_logs.logs) = RecentN
    /\ recent_logs.logs[1].timestamp < recent_logs.logs[RecentN].timestamp
    /\ recent_logs.logs[RecentN].timestamp = clock

\* C9: removing at a valid index takes out exactly the rule at that position:
\* the store is one shorter, the rules before keep their places and the rules
\* after move down by one, unchanged and in order.
C9_RemoveShiftsLaterRules ==
    [][ (event'.kind = "remove" /\ "exception" \notin notices') =>
          LET i == event'.index + 1
          IN  /\ i \in 1..Len(alerts)
              /\ Len(alerts') = Len(alerts) - 1
              /\ \A j \in 1..(i - 1) : alerts'[j] = alerts[j]
              /\ \A j \in i..Len(alerts') : alerts'[j] = alerts[j + 1] ]_vars

\* The middle one of three rules was removed.
C9_Witness ==
    /\ event.kind = "remove"
    /\ event.index = 1
    /\ page = "rerun"
    /\ Len(alerts) = 2

====
